---------------------------- MODULE Spec2Model ----------------------------
(***************************************************************************)
(* The parser-combinator engine of make-parser (class Parser and word).    *)
(*                                                                         *)
(* A Parser value is a record naming how it was constructed; Parse is the  *)
(* closure that construction installs, computed as the source computes it. *)
(* The state machine builds a parser expression step by step (one action   *)
(* per combinator method), binds it to the variable that Parser.dynamic    *)
(* closures read, and calls parse on it.                                   *)
(*                                                                         *)
(* Strings are sequences of one-character strings: 'x' is <<"x">>, the     *)
(* empty string is <<>>.  Indices are the source's zero-based indices.     *)
(***************************************************************************)
EXTENDS Integers, Sequences, FiniteSets, TLC

VARIABLES
    parser,      \* the parser expression under construction
    binding,     \* the variable a Parser.dynamic closure reads (getParser)
    code,        \* first argument of the latest parse call
    startIndex,  \* second argument of the latest parse call
    called,      \* TRUE once parse has been called on the current parser
    returned,    \* TRUE when that call returned a Result
    result,      \* the Result it returned
    log          \* every parse invocation made during that call, in order

vars == <<parser, binding, code, startIndex, called, returned, result, log>>

---------------------------------------------------------------------------
(* Bounds of the model *)

MaxLen == 2        \* longest input
MaxNodes == 2      \* combinator closures wrapped around an expression's operands
MaxMin == 2        \* largest minimumIterations
MaxStack == 3      \* nested Parser.dynamic resolutions before the call stack overflows

Alphabet == {"1", "."}
Codes == UNION {[1..n -> Alphabet] : n \in 0..MaxLen}
Positions == 0..MaxLen

---------------------------------------------------------------------------
(* Values carried by a Success *)

Str(s) == [t |-> "string", v |-> s]
Null == [t |-> "null", v |-> <<>>]
Tuple(x, y) == [t |-> "tuple", v |-> <<x, y>>]
Array(xs) == [t |-> "array", v |-> xs]

(* Result<T> *)
Success(value, endIndex) ==
    [success |-> TRUE, value |-> value, endIndex |-> endIndex]

\* unReversible is optional in the source; FALSE stands for "not set"
Failure(messages, failIndex, unReversible) ==
    [success |-> FALSE, messages |-> messages, failIndex |-> failIndex,
     unReversible |-> unReversible]

\* placeholder of `result` while no Result has been returned
Nothing == [success |-> FALSE, messages |-> <<>>, failIndex |-> 0 - 1,
            unReversible |-> FALSE]

---------------------------------------------------------------------------
(* Parser values: what each constructor or combinator method returns.  The *)
(* record keeps the operands the returned closure captures.                *)

\* getMessage of Parser.match: the default one, or one of the two word builds
DefaultMessage == [fmt |-> "Unexpected Character", word |-> <<>>, character |-> <<>>]
WordMessage(w) == [fmt |-> "expected word", word |-> w, character |-> <<>>]
SpecificMessage(w, c) == [fmt |-> "expected word specifically", word |-> w, character |-> c]

\* the string getMessage(character) builds
Message(getMessage, character) ==
    [fmt |-> getMessage.fmt, word |-> getMessage.word,
     specifically |-> getMessage.character, found |-> character]

\* filter is the set of characters the predicate accepts
match(filter, getMessage) == [op |-> "match", filter |-> filter, getMessage |-> getMessage]
NONE == [op |-> "NONE"]
dynamic == [op |-> "dynamic"]
map(this, f) == [op |-> "map", this |-> this, map |-> f]
mapFailMessages(this, f) == [op |-> "mapFailMessages", this |-> this, map |-> f]
concat(this, other) == [op |-> "concat", this |-> this, parser |-> other]
join(this, other) == map(concat(this, other), "value[0]")
joinRight(this, other) == map(concat(this, other), "value[1]")
unReversible(this) == [op |-> "unReversible", this |-> this]
union(this, other) == [op |-> "union", this |-> this, parser |-> other]
repeat(this, minimumIterations) ==
    [op |-> "repeat", this |-> this, minimumIterations |-> minimumIterations]
wrap(this) == [op |-> "wrap", this |-> this]
option(this) == union(this, NONE)

\* the for loop of word over word.substring(1); k is the index of the next character
RECURSIVE wordLoop(_, _, _)
\* the loop with the bug of leaving out wrap()
wordLoopNoWrap(p, w, k) ==
    IF k > Len(w) THEN p
    ELSE wordLoop(concat(p, match({<<w[k]>>}, SpecificMessage(w, <<w[k]>>))), w, k + 1)

wordLoop(p, w, k) ==
    IF k > Len(w) THEN p
    ELSE wordLoop(wrap(concat(p, match({<<w[k]>>}, SpecificMessage(w, <<w[k]>>)))),
                  w, k + 1)

\* word[0] of the empty string is undefined, which no character equals
word(w) ==
    wordLoop(match(IF Len(w) = 0 THEN {} ELSE {<<w[1]>>}, WordMessage(w)), w, 2)

\* the digit parser of the README: word('0').union(word('1')) ... .union(word('9'))
Digits == <<"0", "1", "2", "3", "4", "5", "6", "7", "8", "9">>
RECURSIVE digitUpTo(_)
digitUpTo(k) ==
    IF k = 1 THEN word(<<Digits[1]>>)
    ELSE union(digitUpTo(k - 1), word(<<Digits[k]>>))
digit == digitUpTo(Len(Digits))

\* the value of the variable before its declaration has run
Unbound == [op |-> "unbound"]

---------------------------------------------------------------------------
(* Functions handed to map and mapFailMessages *)

\* map(result.value, startIndex, result.endIndex)
ApplyMap(f, value, start, end) ==
    CASE f = "value[0]" -> value.v[1]
      [] f = "value[1]" -> value.v[2]
      [] OTHER -> [t |-> "node", v |-> <<value, start, end>>]

ExtraMessage == [fmt |-> "x", word |-> <<>>, specifically |-> <<>>, found |-> <<>>]
MessageMaps == {"concat", "none"}

\* map(result.messages)
ApplyMessageMap(f, messages) ==
    CASE f = "concat" -> Append(messages, ExtraMessage)
      [] OTHER -> <<>>

\* String.prototype.substring: both ends clamped to the string, swapped if reversed
Clamp(n, len) == IF n < 0 THEN 0 ELSE IF n > len THEN len ELSE n
substring(s, from, to) ==
    LET a == Clamp(from, Len(s))
        b == Clamp(to, Len(s))
    IN  IF a = b THEN <<>>
        ELSE IF a < b THEN SubSeq(s, a + 1, b) ELSE SubSeq(s, b + 1, a)

---------------------------------------------------------------------------
(* The parse closures.  A call yields [returns, r, log]: whether it        *)
(* returned, the Result, and the invocations it made.  A call that does    *)
(* not return (an exception, an endless loop) returns nothing to its       *)
(* caller either.                                                          *)

Call(p, role, depth, at) ==
    [ev |-> "call", parser |-> p, role |-> role, depth |-> depth, at |-> at]
Return(op, role, depth, r) ==
    [ev |-> "return", op |-> op, role |-> role, depth |-> depth, r |-> r]
GetParser(depth) == [ev |-> "getParser", depth |-> depth]

Returns(r, l) == [returns |-> TRUE, r |-> r, log |-> l]
NoReturn(l) == [returns |-> FALSE, r |-> Nothing, log |-> l]

\* role names the expression the callee is in the caller's source:
\* "this" for this.parse, "parser" for parser.parse, "getParser()" for dynamic
RECURSIVE Parse(_, _, _, _, _, _)

mapParse(this, f, c, start, depth, stack) ==
    LET o == Parse(this, c, start, "this", depth + 1, stack)
    IN  IF ~o.returns THEN o
        ELSE IF ~o.r.success THEN o
        ELSE Returns([o.r EXCEPT !.value = ApplyMap(f, o.r.value, start, o.r.endIndex)],
                     o.log)

mapFailMessagesParse(this, f, c, start, depth, stack) ==
    LET o == Parse(this, c, start, "this", depth + 1, stack)
    IN  IF ~o.returns THEN o
        ELSE IF o.r.success THEN o
        ELSE Returns([o.r EXCEPT !.messages = ApplyMessageMap(f, o.r.messages)], o.log)

\* concat with the bug of starting parser where this started
concatParseSameStart(this, other, c, start, depth, stack) ==
    LET first == Parse(this, c, start, "this", depth + 1, stack)
    IN  IF ~first.returns THEN first
        ELSE IF ~first.r.success THEN first
        ELSE LET second == Parse(other, c, start, "parser", depth + 1, stack)
                 l == first.log \o second.log
             IN  IF ~second.returns THEN NoReturn(l)
                 ELSE IF ~second.r.success THEN Returns(second.r, l)
                 ELSE Returns(Success(Tuple(first.r.value, second.r.value),
                                      second.r.endIndex), l)

concatParse(this, other, c, start, depth, stack) ==
    LET first == Parse(this, c, start, "this", depth + 1, stack)
    IN  IF ~first.returns THEN first
        ELSE IF ~first.r.success THEN first
        ELSE LET second == Parse(other, c, first.r.endIndex, "parser", depth + 1, stack)
                 l == first.log \o second.log
             IN  IF ~second.returns THEN NoReturn(l)
                 ELSE IF ~second.r.success THEN Returns(second.r, l)
                 ELSE Returns(Success(Tuple(first.r.value, second.r.value),
                                      second.r.endIndex), l)

\* unReversible with the bug of returning the failure as it came
unReversibleParseForgets(this, c, start, depth, stack) ==
    LET o == Parse(this, c, start, "this", depth + 1, stack)
    IN  IF ~o.returns THEN o
        ELSE IF ~o.r.success THEN Returns(o.r, o.log)
        ELSE o

unReversibleParse(this, c, start, depth, stack) ==
    LET o == Parse(this, c, start, "this", depth + 1, stack)
    IN  IF ~o.returns THEN o
        ELSE IF ~o.r.success THEN Returns([o.r EXCEPT !.unReversible = TRUE], o.log)
        ELSE o

\* the tail of union once this has failed with unReversible not set, with the
\* position parser is tried at, whether its unReversible is honoured, and the
\* failIndex of a merged failure left open
unionRest(own, other, c, at, honour, mergedAt, depth, stack) ==
    LET others == Parse(other, c, at, "parser", depth + 1, stack)
        l == own.log \o others.log
    IN  IF ~others.returns THEN NoReturn(l)
        ELSE IF others.r.success THEN Returns(others.r, l)
        ELSE IF honour /\ others.r.unReversible THEN Returns(others.r, l)
        ELSE Returns(Failure(own.r.messages \o others.r.messages,
                             IF mergedAt = "others" THEN others.r.failIndex ELSE at,
                             FALSE), l)

\* union with the bug of resuming parser where this failed
unionParseResume(this, other, c, start, depth, stack) ==
    LET own == Parse(this, c, start, "this", depth + 1, stack)
    IN  IF ~own.returns THEN own
        ELSE IF own.r.success THEN own
        ELSE IF own.r.unReversible THEN own
        ELSE unionRest(own, other, c, own.r.failIndex, TRUE, "start", depth, stack)

\* union with the bug of reporting parser's failIndex for a merged failure
unionParseFarthest(this, other, c, start, depth, stack) ==
    LET own == Parse(this, c, start, "this", depth + 1, stack)
    IN  IF ~own.returns THEN own
        ELSE IF own.r.success THEN own
        ELSE IF own.r.unReversible THEN own
        ELSE unionRest(own, other, c, start, TRUE, "others", depth, stack)

\* union with the bug of merging parser's failure even when it is unReversible
unionParseMerge(this, other, c, start, depth, stack) ==
    LET own == Parse(this, c, start, "this", depth + 1, stack)
    IN  IF ~own.returns THEN own
        ELSE IF own.r.success THEN own
        ELSE IF own.r.unReversible THEN own
        ELSE unionRest(own, other, c, start, FALSE, "start", depth, stack)

\* union with the bug of trying parser after an unReversible failure of this
unionParseNoCut(this, other, c, start, depth, stack) ==
    LET own == Parse(this, c, start, "this", depth + 1, stack)
    IN  IF ~own.returns THEN own
        ELSE IF own.r.success THEN own
        ELSE unionRest(own, other, c, start, TRUE, "start", depth, stack)

unionParse(this, other, c, start, depth, stack) ==
    LET own == Parse(this, c, start, "this", depth + 1, stack)
    IN  IF ~own.returns THEN own
        ELSE IF own.r.success THEN own
        ELSE IF own.r.unReversible THEN own
        ELSE LET others == Parse(other, c, start, "parser", depth + 1, stack)
                 l == own.log \o others.log
             IN  IF ~others.returns THEN NoReturn(l)
                 ELSE IF others.r.success THEN Returns(others.r, l)
                 ELSE IF others.r.unReversible THEN Returns(others.r, l)
                 ELSE Returns(Failure(own.r.messages \o others.r.messages, start, FALSE),
                              l)

\* the while loop of repeat, entered with the values pushed so far.  parse is a
\* function of (code, index), so a success that leaves endIndex where it was,
\* before the end of code, repeats for ever: the call never returns.
RECURSIVE repeatLoop(_, _, _, _, _, _, _, _)
\* the loop with its condition and its two failure tests left open
repeatLoopWith(atEnd, cut, strict, this, minimumIterations, c, endIndex, values,
               depth, stack, l) ==
    IF endIndex < Len(c) \/ (atEnd /\ Len(values) < minimumIterations)
    THEN LET o == Parse(this, c, endIndex, "this", depth + 1, stack)
             l2 == l \o o.log
         IN  IF ~o.returns THEN NoReturn(l2)
             ELSE IF ~o.r.success
             THEN IF strict \/ (cut /\ o.r.unReversible)
                     \/ Len(values) < minimumIterations
                  THEN Returns(o.r, l2)
                  ELSE Returns(Success(Array(values), endIndex), l2)
             ELSE IF o.r.endIndex = endIndex /\ endIndex < Len(c)
             THEN NoReturn(l2)
             ELSE repeatLoop(this, minimumIterations, c, o.r.endIndex,
                             Append(values, o.r.value), depth, stack, l2)
    ELSE Returns(Success(Array(values), endIndex), l)

\* repeat with the bug of ending the sequence at an unReversible failure
repeatLoopSwallow(this, minimumIterations, c, endIndex, values, depth, stack, l) ==
    repeatLoopWith(TRUE, FALSE, FALSE, this, minimumIterations, c, endIndex, values,
                   depth, stack, l)

\* repeat with the bug of returning every failure of this
repeatLoopStrict(this, minimumIterations, c, endIndex, values, depth, stack, l) ==
    repeatLoopWith(TRUE, TRUE, TRUE, this, minimumIterations, c, endIndex, values,
                   depth, stack, l)

\* repeat with the bug of a loop condition that only looks at the end of code
repeatLoopStopAtEnd(this, minimumIterations, c, endIndex, values, depth, stack, l) ==
    repeatLoopWith(FALSE, TRUE, FALSE, this, minimumIterations, c, endIndex, values,
                   depth, stack, l)

\* repeat with the bug of ending the sequence where the failure was found
repeatLoopKeepsFailPosition(this, minimumIterations, c, endIndex, values, depth, stack, l) ==
    IF endIndex < Len(c) \/ Len(values) < minimumIterations
    THEN LET o == Parse(this, c, endIndex, "this", depth + 1, stack)
             l2 == l \o o.log
         IN  IF ~o.returns THEN NoReturn(l2)
             ELSE IF ~o.r.success
             THEN IF o.r.unReversible \/ Len(values) < minimumIterations
                  THEN Returns(o.r, l2)
                  ELSE Returns(Success(Array(values), o.r.failIndex), l2)
             ELSE IF o.r.endIndex = endIndex /\ endIndex < Len(c)
             THEN NoReturn(l2)
             ELSE repeatLoop(this, minimumIterations, c, o.r.endIndex,
                             Append(values, o.r.value), depth, stack, l2)
    ELSE Returns(Success(Array(values), endIndex), l)

\* repeat with the bug of a loop condition that still holds at the end of code
repeatLoopOffByOne(this, minimumIterations, c, endIndex, values, depth, stack, l) ==
    IF endIndex <= Len(c) \/ Len(values) < minimumIterations
    THEN LET o == Parse(this, c, endIndex, "this", depth + 1, stack)
             l2 == l \o o.log
         IN  IF ~o.returns THEN NoReturn(l2)
             ELSE IF ~o.r.success
             THEN IF o.r.unReversible \/ Len(values) < minimumIterations
                  THEN Returns(o.r, l2)
                  ELSE Returns(Success(Array(values), endIndex), l2)
             ELSE IF o.r.endIndex = endIndex /\ endIndex <= Len(c)
             THEN NoReturn(l2)
             ELSE repeatLoop(this, minimumIterations, c, o.r.endIndex,
                             Append(values, o.r.value), depth, stack, l2)
    ELSE Returns(Success(Array(values), endIndex), l)

\* repeat with a break added for a success that leaves endIndex where it was
repeatLoopGuarded(this, minimumIterations, c, endIndex, values, depth, stack, l) ==
    IF endIndex < Len(c) \/ Len(values) < minimumIterations
    THEN LET o == Parse(this, c, endIndex, "this", depth + 1, stack)
             l2 == l \o o.log
         IN  IF ~o.returns THEN NoReturn(l2)
             ELSE IF ~o.r.success
             THEN IF o.r.unReversible \/ Len(values) < minimumIterations
                  THEN Returns(o.r, l2)
                  ELSE Returns(Success(Array(values), endIndex), l2)
             ELSE IF o.r.endIndex = endIndex /\ endIndex < Len(c)
             THEN Returns(Success(Array(values), endIndex), l2)
             ELSE repeatLoop(this, minimumIterations, c, o.r.endIndex,
                             Append(values, o.r.value), depth, stack, l2)
    ELSE Returns(Success(Array(values), endIndex), l)

\* repeat with the bug of a failure test that does not break out of the loop
repeatLoopNoBreak(this, minimumIterations, c, endIndex, values, depth, stack, l) ==
    IF endIndex < Len(c) \/ Len(values) < minimumIterations
    THEN LET o == Parse(this, c, endIndex, "this", depth + 1, stack)
             l2 == l \o o.log
         IN  IF ~o.returns THEN NoReturn(l2)
             ELSE IF ~o.r.success
             THEN IF o.r.unReversible \/ Len(values) < minimumIterations
                  THEN Returns(o.r, l2)
                  ELSE NoReturn(l2)
             ELSE IF o.r.endIndex = endIndex /\ endIndex < Len(c)
             THEN NoReturn(l2)
             ELSE repeatLoop(this, minimumIterations, c, o.r.endIndex,
                             Append(values, o.r.value), depth, stack, l2)
    ELSE Returns(Success(Array(values), endIndex), l)

repeatLoop(this, minimumIterations, c, endIndex, values, depth, stack, l) ==
    IF endIndex < Len(c) \/ Len(values) < minimumIterations
    THEN LET o == Parse(this, c, endIndex, "this", depth + 1, stack)
             l2 == l \o o.log
         IN  IF ~o.returns THEN NoReturn(l2)
             ELSE IF ~o.r.success
             THEN IF o.r.unReversible \/ Len(values) < minimumIterations
                  THEN Returns(o.r, l2)
                  ELSE Returns(Success(Array(values), endIndex), l2)
             ELSE IF o.r.endIndex = endIndex /\ endIndex < Len(c)
             THEN NoReturn(l2)
             ELSE repeatLoop(this, minimumIterations, c, o.r.endIndex,
                             Append(values, o.r.value), depth, stack, l2)
    ELSE Returns(Success(Array(values), endIndex), l)

repeatParse(this, minimumIterations, c, start, depth, stack) ==
    repeatLoop(this, minimumIterations, c, start, <<>>, depth, stack, <<>>)

\* wrap with the bug of taking the substring from the start of code
wrapParseFromZero(this, c, start, depth, stack) ==
    LET o == Parse(this, c, start, "this", depth + 1, stack)
    IN  IF ~o.returns THEN o
        ELSE IF ~o.r.success THEN o
        ELSE Returns([o.r EXCEPT !.value = Str(substring(c, 0, o.r.endIndex))], o.log)

wrapParse(this, c, start, depth, stack) ==
    LET o == Parse(this, c, start, "this", depth + 1, stack)
    IN  IF ~o.returns THEN o
        ELSE IF ~o.r.success THEN o
        ELSE Returns([o.r EXCEPT !.value = Str(substring(c, start, o.r.endIndex))], o.log)

\* dynamic with the bug of calling getParser a second time for the parse method
dynamicParseTwice(c, start, depth, stack) ==
    IF binding = Unbound \/ stack >= MaxStack
    THEN NoReturn(<<GetParser(depth)>>)
    ELSE LET o == Parse(binding, c, start, "getParser()", depth + 1, stack + 1)
         IN  [o EXCEPT !.log = <<GetParser(depth), GetParser(depth)>> \o o.log]

\* getParser is () => binding.  Reading the variable before its declaration has
\* run throws; recursion deeper than the call stack throws.
dynamicParse(c, start, depth, stack) ==
    IF binding = Unbound \/ stack >= MaxStack
    THEN NoReturn(<<GetParser(depth)>>)
    ELSE LET o == Parse(binding, c, start, "getParser()", depth + 1, stack + 1)
         IN  [o EXCEPT !.log = <<GetParser(depth)>> \o o.log]

\* match with the bug of keeping endIndex inside code
matchParseClamped(filter, getMessage, c, start) ==
    LET character == IF start >= 0 /\ start < Len(c) THEN <<c[start + 1]>> ELSE <<>>
    IN  IF character \in filter
        THEN Returns(Success(Str(character), Clamp(start + 1, Len(c))), <<>>)
        ELSE Returns(Failure(<<Message(getMessage, character)>>, start, FALSE), <<>>)

\* match with the bug of reporting nothing when there is no character to report
matchParseSilentAtEnd(filter, getMessage, c, start) ==
    LET character == IF start >= 0 /\ start < Len(c) THEN <<c[start + 1]>> ELSE <<>>
    IN  IF character \in filter
        THEN Returns(Success(Str(character), start + 1), <<>>)
        ELSE Returns(Failure(IF character = <<>> THEN <<>>
                             ELSE <<Message(getMessage, character)>>, start, FALSE), <<>>)

\* match with the bug of failing past the end of code whatever filter says
matchParseEndFails(filter, getMessage, c, start) ==
    LET character == IF start >= 0 /\ start < Len(c) THEN <<c[start + 1]>> ELSE <<>>
    IN  IF character \in filter /\ character # <<>>
        THEN Returns(Success(Str(character), start + 1), <<>>)
        ELSE Returns(Failure(<<Message(getMessage, character)>>, start, FALSE), <<>>)

matchParse(filter, getMessage, c, start) ==
    LET character == IF start >= 0 /\ start < Len(c) THEN <<c[start + 1]>> ELSE <<>>
    IN  IF character \in filter
        THEN Returns(Success(Str(character), start + 1), <<>>)
        ELSE Returns(Failure(<<Message(getMessage, character)>>, start, FALSE), <<>>)

NONEParse(c, start) == Returns(Success(Null, start), <<>>)

\* p.parse(code, startIndex)
Parse(p, c, start, role, depth, stack) ==
    LET o == CASE p.op = "map" -> mapParse(p.this, p.map, c, start, depth, stack)
               [] p.op = "mapFailMessages" ->
                      mapFailMessagesParse(p.this, p.map, c, start, depth, stack)
               [] p.op = "concat" -> concatParse(p.this, p.parser, c, start, depth, stack)
               [] p.op = "unReversible" -> unReversibleParse(p.this, c, start, depth, stack)
               [] p.op = "union" -> unionParse(p.this, p.parser, c, start, depth, stack)
               [] p.op = "repeat" ->
                      repeatParse(p.this, p.minimumIterations, c, start, depth, stack)
               [] p.op = "wrap" -> wrapParse(p.this, c, start, depth, stack)
               [] p.op = "dynamic" -> dynamicParse(c, start, depth, stack)
               [] p.op = "match" -> matchParse(p.filter, p.getMessage, c, start)
               [] p.op = "NONE" -> NONEParse(c, start)
    IN  [o EXCEPT !.log = <<Call(p, role, depth, start)>> \o o.log
                          \o IF o.returns THEN <<Return(p.op, role, depth, o.r)>>
                             ELSE <<>>]

---------------------------------------------------------------------------
(* The state machine: building parsers and calling parse *)

\* Parser.match((char) => char !== '.') after the README's string parser: the
\* predicate accepts the empty string it is given past the end of code
NotDot == match({<<"1">>, <<>>}, DefaultMessage)

\* the README's word('1.').concat(word('0').unReversible()), on this alphabet
OneDotOne == concat(word(<<"1", ".">>), unReversible(word(<<"1">>)))

\* the parsers an expression starts from, and the arguments given to its methods
Operands ==
    {word(<<"1">>), word(<<"1", ".">>), NotDot, NONE, dynamic, digit, OneDotOne}

\* combinator closures wrapped around the operands of p
RECURSIVE Nodes(_)
Nodes(p) ==
    IF p \in Operands THEN 0
    ELSE IF p.op \in {"concat", "union"} THEN 1 + Nodes(p.this) + Nodes(p.parser)
    ELSE 1 + Nodes(p.this)

\* p holds a Parser.dynamic closure
RECURSIVE HasDynamic(_)
HasDynamic(p) ==
    CASE p.op = "dynamic" -> TRUE
      [] p.op \in {"match", "NONE"} -> FALSE
      [] p.op \in {"concat", "union"} -> HasDynamic(p.this) \/ HasDynamic(p.parser)
      [] OTHER -> HasDynamic(p.this)

\* a newly built parser has not been called
Built(p) ==
    /\ Nodes(p) <= MaxNodes
    /\ parser' = p
    /\ called' = FALSE
    /\ returned' = FALSE
    /\ result' = Nothing
    /\ log' = <<>>
    /\ code' = <<>>
    /\ startIndex' = 0
    /\ UNCHANGED binding

TypeOK ==
    /\ code \in Codes
    /\ startIndex \in Positions
    /\ called \in BOOLEAN
    /\ returned \in BOOLEAN
    /\ returned => called

Init ==
    /\ parser \in Operands
    /\ binding = Unbound
    /\ code = <<>>
    /\ startIndex = 0
    /\ called = FALSE
    /\ returned = FALSE
    /\ result = Nothing
    /\ log = <<>>

\* const y = <the expression>, the variable Parser.dynamic(() => y) reads; only
\* an expression holding such a closure can observe it, and the latest call
\* recorded is always one made with the present binding
Bind ==
    /\ HasDynamic(parser)
    /\ binding = Unbound
    /\ ~called
    /\ binding' = parser
    /\ UNCHANGED <<parser, code, startIndex, called, returned, result, log>>

Map == Built(map(parser, "node"))
MapFailMessages == \E f \in MessageMaps : Built(mapFailMessages(parser, f))
Concat == \E other \in Operands : Built(concat(parser, other))
Join == \E other \in Operands : Built(join(parser, other))
JoinRight == \E other \in Operands : Built(joinRight(parser, other))
UnReversible == Built(unReversible(parser))
Union == \E other \in Operands : Built(union(parser, other))
Repeat == \E minimumIterations \in 0..MaxMin : Built(repeat(parser, minimumIterations))
Wrap == Built(wrap(parser))
Option == Built(option(parser))

\* parser.parse(c, start), once per parser and input: parse keeps no state
ParseCall ==
    /\ ~called
    /\ \E c \in Codes, start \in Positions :
         LET o == Parse(parser, c, start, "top", 0, 0)
         IN  /\ code' = c
             /\ startIndex' = start
             /\ called' = TRUE
             /\ returned' = o.returns
             /\ result' = o.r
             /\ log' = o.log
    /\ UNCHANGED <<parser, binding>>

Next ==
    \/ Bind
    \/ Map
    \/ MapFailMessages
    \/ Concat
    \/ Join
    \/ JoinRight
    \/ UnReversible
    \/ Union
    \/ Repeat
    \/ Wrap
    \/ Option
    \/ ParseCall

Spec == Init /\ [][Next]_vars

---------------------------------------------------------------------------
(* Properties *)

\* the invocations the called parser made itself, and what they returned
DirectCalls == SelectSeq(log, LAMBDA e : e.ev = "call" /\ e.depth = 1)
DirectReturns == SelectSeq(log, LAMBDA e : e.ev = "return" /\ e.depth = 1)

IsUnion == called /\ parser.op = "union"
IsConcat == called /\ parser.op = "concat"
IsRepeat == called /\ parser.op = "repeat"
UncommittedFailure(r) == ~r.success /\ ~r.unReversible
CommittedFailure(r) == ~r.success /\ r.unReversible

\* C1: one call of a.union(b).parse(input, P) invokes a exactly once, first, at
\* P; it invokes b only when a failed at P with unReversible not set, and then
\* exactly once, at the same P
C1_UnionInvocations ==
    IsUnion =>
        LET calls == DirectCalls
            rets == DirectReturns
        IN  /\ log[2] = Call(parser.this, "this", 1, startIndex)
            /\ Len(calls) >= 1
            /\ calls[1] = log[2]
            /\ \A k \in 2..Len(calls) : calls[k].role # "this"
            /\ IF Len(rets) >= 1 /\ UncommittedFailure(rets[1].r)
               THEN /\ Len(calls) = 2
                    /\ calls[2] = Call(parser.parser, "parser", 1, startIndex)
               ELSE Len(calls) = 1

\* a failed uncommitted beyond P and b was then invoked
C1_Witness ==
    /\ IsUnion
    /\ Len(DirectCalls) = 2
    /\ DirectReturns[1].r.failIndex > startIndex

\* C2: once a parser made by unReversible() returns a Failure, the top-level
\* call returns a Failure with unReversible = true and the same failIndex, and
\* nothing is invoked after that inner failure
C2_CommittedFailureHalts ==
    called =>
        \A k \in 1..Len(log) :
            (log[k].ev = "return" /\ log[k].op = "unReversible" /\ ~log[k].r.success)
            => /\ returned
               /\ CommittedFailure(result)
               /\ result.failIndex = log[k].r.failIndex
               /\ \A j \in (k + 1)..Len(log) : log[j].ev = "return"

\* an unReversible parser failed two levels below a union whose other branch,
\* called on its own at P, succeeds: the README's '1.1' case
C2_Witness ==
    /\ IsUnion
    /\ \E k \in 1..Len(log) :
           /\ log[k].ev = "return" /\ log[k].op = "unReversible"
           /\ ~log[k].r.success
           /\ log[k].depth >= 2
    /\ Parse(parser.parser, code, startIndex, "top", 0, 0).r.success

NoDigitAtStart == startIndex >= Len(code) \/ \A k \in 1..Len(Digits) : code[startIndex + 1] # Digits[k]

\* C4: when a and b both fail at P with unReversible not set, a.union(b) fails
\* with failIndex exactly P, a's messages followed by b's, and unReversible not
\* set; so the ten-way union of one-character words fails on a non-matching
\* character with ten messages and failIndex P
C4_UnionBothFail ==
    /\ (IsUnion /\ returned /\ Len(DirectReturns) = 2
        /\ UncommittedFailure(DirectReturns[1].r) /\ UncommittedFailure(DirectReturns[2].r))
       => result = Failure(DirectReturns[1].r.messages \o DirectReturns[2].r.messages,
                           startIndex, FALSE)
    /\ (called /\ parser = digit /\ NoDigitAtStart)
       => /\ returned
          /\ UncommittedFailure(result)
          /\ Len(result.messages) = Len(Digits)
          /\ result.failIndex = startIndex

\* both branches failed uncommitted, the first one beyond P
C4_Witness ==
    /\ IsUnion /\ returned
    /\ Len(DirectReturns) = 2
    /\ UncommittedFailure(DirectReturns[1].r) /\ UncommittedFailure(DirectReturns[2].r)
    /\ DirectReturns[1].r.failIndex > startIndex
    /\ result.failIndex = startIndex

\* b.parse(code, startIndex), called on its own
AloneResult == Parse(parser.parser, code, startIndex, "top", 0, 0)

\* a of the union failed with unReversible not set and the union returned
FellThrough ==
    /\ IsUnion /\ returned
    /\ Len(DirectReturns) = 2
    /\ UncommittedFailure(DirectReturns[1].r)

\* C5 as stated: after an uncommitted failure of a, the union's Result equals
\* b's own Result at P in every field but, on a double uncommitted failure,
\* the messages
C5_AsStated ==
    FellThrough =>
        LET b == AloneResult.r
        IN  IF UncommittedFailure(b)
            THEN /\ UncommittedFailure(result)
                 /\ result.failIndex = b.failIndex
                 /\ result.messages = DirectReturns[1].r.messages \o b.messages
            ELSE result = b

\* C5, amended: ... in every field, except that on a double uncommitted failure
\* messages is a's messages followed by b's and failIndex is P, not b's failIndex
C5_UnionFallsThrough ==
    FellThrough =>
        LET b == AloneResult.r
        IN  /\ AloneResult.returns
            /\ IF UncommittedFailure(b)
               THEN /\ UncommittedFailure(result)
                    /\ result.failIndex = startIndex
                    /\ result.messages = DirectReturns[1].r.messages \o b.messages
               ELSE result = b

\* a failed uncommitted and b failed committed: the union returns b's Failure
C5_Witness ==
    /\ FellThrough
    /\ CommittedFailure(AloneResult.r)
    /\ result = AloneResult.r

\* C6 as stated: p.repeat(0).parse always returns a Success
C6_AsStated ==
    (IsRepeat /\ parser.minimumIterations = 0 /\ returned) => result.success

\* C6, amended: p.repeat(0).parse returns a Success unless an attempt of p
\* returns a Failure with unReversible = true, and then it returns that Failure
C6_RepeatZero ==
    (IsRepeat /\ parser.minimumIterations = 0 /\ returned) =>
        LET rets == DirectReturns
        IN  IF \E k \in 1..Len(rets) : CommittedFailure(rets[k].r)
            THEN result = rets[Len(rets)].r /\ CommittedFailure(result)
            ELSE result.success /\ result.value.t = "array"

\* repeat(0) stopped by an uncommitted failure after collecting a value
C6_Witness ==
    /\ IsRepeat /\ parser.minimumIterations = 0 /\ returned
    /\ Len(DirectReturns) >= 2
    /\ UncommittedFailure(DirectReturns[Len(DirectReturns)].r)
    /\ result.success

\* successes among the first n returns
RECURSIVE Successes(_, _)
Successes(rets, n) ==
    IF n = 0 THEN 0
    ELSE Successes(rets, n - 1) + (IF rets[n].r.success THEN 1 ELSE 0)

\* C7: for n >= 1, p.repeat(n) chains p from P, each attempt starting at the
\* previous success's endIndex, also at or past the end of code while fewer than
\* n values are collected; when p fails after k < n successes the call returns
\* exactly that Failure
C7_RepeatMinimum ==
    (IsRepeat /\ parser.minimumIterations >= 1 /\ returned) =>
        LET calls == DirectCalls
            rets == DirectReturns
            n == parser.minimumIterations
            last == rets[Len(rets)].r
        IN  /\ Len(calls) = Len(rets) /\ Len(calls) >= 1
            /\ \A j \in 1..Len(calls) :
                   calls[j] = Call(parser.this, "this", 1,
                                   IF j = 1 THEN startIndex ELSE rets[j - 1].r.endIndex)
            /\ (~last.success /\ Successes(rets, Len(rets)) < n) => result = last
            /\ result.success => Successes(rets, Len(rets)) >= n

\* p succeeded once, was attempted again at the end of code and failed: the
\* collected value is dropped and that Failure returned
C7_Witness ==
    /\ IsRepeat /\ parser.minimumIterations >= 2 /\ returned
    /\ Len(DirectReturns) = 2
    /\ DirectCalls[2].at >= Len(code)
    /\ UncommittedFailure(DirectReturns[2].r)
    /\ result = DirectReturns[2].r

IsOption == IsUnion /\ parser.parser = NONE

\* C8: p.option() returns p's Success unchanged, returns p's Failure when it has
\* unReversible = true, and otherwise succeeds with null and endIndex P
C8_Option ==
    (IsOption /\ returned) =>
        LET p == DirectReturns[1].r
        IN  /\ ~result.success => (result = p /\ CommittedFailure(p))
            /\ p.success => result = p
            /\ CommittedFailure(p) => result = p
            /\ UncommittedFailure(p) => result = Success(Null, startIndex)

\* p failed uncommitted beyond P and option succeeded with null at P
C8_Witness ==
    /\ IsOption /\ returned
    /\ UncommittedFailure(DirectReturns[1].r)
    /\ DirectReturns[1].r.failIndex > startIndex
    /\ result = Success(Null, startIndex)

\* C9: a Success of any parser built from the library has endIndex >= P
C9_EndIndexNotBeforeStart ==
    (called /\ returned /\ result.success) => result.endIndex >= startIndex

\* a Success found past the end of code
C9_Witness ==
    /\ called /\ returned /\ result.success
    /\ startIndex > Len(code)
    /\ result.endIndex > startIndex

\* no mapFailMessages in p is given a function that returns the empty list
RECURSIVE KeepsMessages(_)
KeepsMessages(p) ==
    CASE p.op \in {"match", "NONE", "dynamic", "unbound"} -> TRUE
      [] p.op = "mapFailMessages" -> p.map # "none" /\ KeepsMessages(p.this)
      [] p.op \in {"concat", "union"} -> KeepsMessages(p.this) /\ KeepsMessages(p.parser)
      [] OTHER -> KeepsMessages(p.this)

Slice(from, to) ==
    LET lo == IF from < Len(code) THEN from ELSE Len(code)
        hi == IF to < Len(code) THEN to ELSE Len(code)
    IN  [i \in 1..(hi - lo) |-> code[lo + i]]

\* C13: when p succeeds at P with endIndex E, p.wrap() succeeds with endIndex E
\* and the substring of code from P to E as value, whatever p's value was; when
\* p fails, p.wrap() returns p's Failure unchanged
C13_Wrap ==
    (called /\ parser.op = "wrap" /\ Len(DirectReturns) >= 1) =>
        LET inner == DirectReturns[1].r
        IN  /\ log[2] = Call(parser.this, "this", 1, startIndex)
            /\ Len(DirectCalls) = 1
            /\ returned
            /\ IF inner.success
               THEN result = Success(Str(Slice(startIndex, inner.endIndex)),
                                     inner.endIndex)
               ELSE result = inner

\* a wrap called after the start of code whose operand consumed a character and
\* gave a value that is not a string
C13_Witness ==
    /\ called /\ returned /\ parser.op = "wrap"
    /\ startIndex >= 1
    /\ DirectReturns[1].r.success
    /\ DirectReturns[1].r.value.t # "string"
    /\ Len(result.value.v) >= 1

\* the values of the first n direct returns that are successes, in order
RECURSIVE SuccessValues(_, _)
SuccessValues(rets, n) ==
    IF n = 0 THEN <<>>
    ELSE IF rets[n].r.success
    THEN Append(SuccessValues(rets, n - 1), rets[n].r.value)
    ELSE SuccessValues(rets, n - 1)

PositionAfter(j) == IF j = 0 THEN startIndex ELSE DirectReturns[j].r.endIndex

\* C19: once the position is at or past the end of code and at least m values
\* are collected, p.repeat(m) does not invoke p again and succeeds; started at
\* or past the end with m = 0 it returns Success([], start) without invoking p
C19_RepeatStopsAtEnd ==
    IsRepeat =>
        /\ \A j \in 0..Len(DirectReturns) :
               ( /\ \A i \in 1..j : DirectReturns[i].r.success
                 /\ j >= parser.minimumIterations
                 /\ PositionAfter(j) >= Len(code) ) =>
                   /\ Len(DirectCalls) = j
                   /\ returned
                   /\ result = Success(Array(SuccessValues(DirectReturns, j)),
                                       PositionAfter(j))
        /\ (parser.minimumIterations = 0 /\ startIndex >= Len(code)) =>
               /\ DirectCalls = <<>>
               /\ returned
               /\ result = Success(Array(<<>>), startIndex)

\* a repeat with a minimum that reached the end of code with its last required
\* value and stopped there
C19_Witness ==
    /\ IsRepeat /\ returned /\ result.success
    /\ parser.minimumIterations >= 1
    /\ Len(DirectCalls) = parser.minimumIterations
    /\ Len(code) >= 1
    /\ result.endIndex >= Len(code)

\* every attempt of repeat returned, and every success among them advanced
AttemptsAdvance ==
    /\ Len(DirectReturns) = Len(DirectCalls)
    /\ \A j \in 1..Len(DirectReturns) :
           DirectReturns[j].r.success => DirectReturns[j].r.endIndex > DirectCalls[j].at

\* C20: if p terminates and each of its Successes advances, p.repeat(m)
\* terminates, and with m = 0 from P <= |code| it invokes p at most |code| - P
\* times; if p succeeds without advancing before the end of code, the loop
\* stays at that position and the call never returns
C20_RepeatTermination ==
    IsRepeat =>
        /\ AttemptsAdvance =>
               /\ returned
               /\ (parser.minimumIterations = 0 /\ startIndex <= Len(code)) =>
                      Len(DirectCalls) <= Len(code) - startIndex
        /\ \A j \in 1..Len(DirectReturns) :
               ( /\ DirectReturns[j].r.success
                 /\ DirectReturns[j].r.endIndex = DirectCalls[j].at
                 /\ DirectCalls[j].at < Len(code) ) =>
                   /\ ~returned
                   /\ j = Len(DirectCalls)

\* a repeat(0) that used every attempt the length of code allows
C20_Witness ==
    /\ IsRepeat /\ returned /\ AttemptsAdvance
    /\ parser.minimumIterations = 0
    /\ startIndex = 0
    /\ Len(DirectCalls) = Len(code)
    /\ Len(code) = MaxLen

\* a repeat whose operand succeeded without advancing before the end of code
C20_Stalled ==
    /\ IsRepeat /\ ~returned
    /\ Len(DirectReturns) >= 1
    /\ DirectReturns[Len(DirectReturns)].r.success
    /\ DirectReturns[Len(DirectReturns)].r.endIndex < Len(code)

\* some repeat inside p has an operand that, on code, succeeds at a position
\* before the end of code and leaves endIndex there
RECURSIVE CanStall(_)
CanStall(p) ==
    CASE p.op \in {"match", "NONE", "dynamic"} -> FALSE
      [] p.op = "repeat" ->
             \/ CanStall(p.this)
             \/ \E i \in 0..(Len(code) - 1) :
                    LET o == Parse(p.this, code, i, "this", 1, 0)
                    IN  o.returns /\ o.r.success /\ o.r.endIndex = i
      [] p.op \in {"concat", "union"} -> CanStall(p.this) \/ CanStall(p.parser)
      [] OTHER -> CanStall(p.this)

\* C16 as stated: every parse call on a parser built without dynamic returns
C16_AsStated ==
    (called /\ ~HasDynamic(parser)) => returned

\* C16: every parse call on a parser built from match, word, NONE and the
\* combinators other than dynamic returns a Result, provided no operand of a
\* repeat in it succeeds without advancing before the end of code
C16_Terminates ==
    (called /\ ~HasDynamic(parser) /\ ~CanStall(parser)) =>
        /\ returned
        /\ result.success \in BOOLEAN

\* the repeat of an optional parser on a code where the option always consumes
C16_Witness ==
    /\ IsRepeat /\ returned
    /\ parser.this.op = "union" /\ parser.this.parser = NONE
    /\ ~CanStall(parser)
    /\ startIndex = 0
    /\ Len(code) = MaxLen

---------------------------------------------------------------------------
(* The primitives on their own: every literal and every predicate over the *)
(* alphabet, called on inputs long enough for the longest literal          *)

MaxWord == 3       \* longest literal given to word

Literals == UNION {[1..n -> Alphabet] : n \in 0..MaxWord}
Characters == {<<a>> : a \in Alphabet} \cup {<<>>}
Primitives ==
    {word(w) : w \in Literals}
    \cup {match(filter, DefaultMessage) : filter \in SUBSET Characters}
    \cup {NONE}
LongCodes == UNION {[1..n -> Alphabet] : n \in 0..(MaxWord + 1)}

PrimitiveInit ==
    /\ parser \in Primitives
    /\ binding = Unbound
    /\ code = <<>>
    /\ startIndex = 0
    /\ called = FALSE
    /\ returned = FALSE
    /\ result = Nothing
    /\ log = <<>>

\* parser.parse(c, start) on a primitive
PrimitiveCall ==
    /\ ~called
    /\ \E c \in LongCodes, start \in 0..(MaxWord + 2) :
         LET o == Parse(parser, c, start, "top", 0, 0)
         IN  /\ code' = c
             /\ startIndex' = start
             /\ called' = TRUE
             /\ returned' = o.returns
             /\ result' = o.r
             /\ log' = o.log
    /\ UNCHANGED <<parser, binding>>

SpecPrimitive == PrimitiveInit /\ [][PrimitiveCall]_vars

\* code[startIndex + i], the empty string past the end
CharAt(i) ==
    IF startIndex + i < Len(code) THEN <<code[startIndex + i + 1]>> ELSE <<>>

\* the first i characters of w are found in code from startIndex on
RECURSIVE Agrees(_, _)
Agrees(w, i) == i = 0 \/ (Agrees(w, i - 1) /\ CharAt(i - 1) = <<w[i]>>)

\* C11: word(L) for a non-empty L succeeds iff code[P+i] = L[i] for every i,
\* with value L and endIndex P + |L|; otherwise it fails with exactly one
\* message, at P + j for the smallest mismatching j, unReversible not set
C11_Word ==
    \A w \in Literals :
        (called /\ w # <<>> /\ parser = word(w)) =>
            /\ returned
            /\ IF Agrees(w, Len(w))
               THEN result = Success(Str(w), startIndex + Len(w))
               ELSE /\ UncommittedFailure(result)
                    /\ Len(result.messages) = 1
                    /\ \E j \in 0..(Len(w) - 1) :
                           /\ Agrees(w, j)
                           /\ CharAt(j) # <<w[j + 1]>>
                           /\ result.failIndex = startIndex + j

\* a three-character literal whose last character falls past the end of code
C11_Witness ==
    /\ called /\ returned
    /\ \E w \in Literals : Len(w) = MaxWord /\ parser = word(w)
    /\ ~result.success
    /\ result.failIndex = Len(code)
    /\ result.failIndex = startIndex + (MaxWord - 1)

\* C12: Parser.match(f) applies f to code[P], or to the empty string at or past
\* the end; accepted, it succeeds with that character and endIndex P + 1, also
\* past the end; otherwise it fails with the one message getMessage builds, at
\* P, unReversible not set
C12_Match ==
    (called /\ parser.op = "match") =>
        /\ returned
        /\ IF CharAt(0) \in parser.filter
           THEN result = Success(Str(CharAt(0)), startIndex + 1)
           ELSE result = Failure(<<Message(parser.getMessage, CharAt(0))>>,
                                 startIndex, FALSE)

\* a predicate that accepts the empty string, called past the end of code
C12_Witness ==
    /\ called /\ returned
    /\ parser.op = "match"
    /\ startIndex > Len(code)
    /\ result = Success(Str(<<>>), startIndex + 1)

\* C15: word('') raises when called, so no parser it returned is ever called
\* and answers with a Result
C15_EmptyWordRejected ==
    ~(called /\ returned /\ parser = word(<<>>))

---------------------------------------------------------------------------
(* One Parser.dynamic(() => binding), parsed several times while the       *)
(* variable its getParser reads is assigned anew; log keeps every call     *)

MaxCalls == 2      \* parse calls made on the one dynamic parser

Bindings == {word(<<"1">>), NONE, digit, dynamic, concat(word(<<"1">>), dynamic)}
DynamicCodes == {<<>>, <<"1">>, <<"1", ".">>}

TopCalls == SelectSeq(log, LAMBDA e : e.ev = "call" /\ e.depth = 0)
TopGetParsers == SelectSeq(log, LAMBDA e : e.ev = "getParser" /\ e.depth = 0)

DynamicInit ==
    /\ parser = dynamic
    /\ binding = Unbound
    /\ code = <<>>
    /\ startIndex = 0
    /\ called = FALSE
    /\ returned = FALSE
    /\ result = Nothing
    /\ log = <<>>

\* the variable getParser reads is assigned
DynamicRebind ==
    /\ \E p \in Bindings : p # binding /\ binding' = p
    /\ UNCHANGED <<parser, code, startIndex, called, returned, result, log>>

\* parser.parse(c, start) on the dynamic parser
DynamicCall ==
    /\ Len(TopCalls) < MaxCalls
    /\ \E c \in DynamicCodes, start \in 0..1 :
         LET o == Parse(parser, c, start, "top", 0, 0)
         IN  /\ code' = c
             /\ startIndex' = start
             /\ called' = TRUE
             /\ returned' = o.returns
             /\ result' = o.r
             /\ log' = log \o o.log
    /\ UNCHANGED <<parser, binding>>

DynamicNext == DynamicRebind \/ DynamicCall

SpecDynamic == DynamicInit /\ [][DynamicNext]_vars

\* what a parse call on the dynamic parser adds to the log when getParser
\* returns the parser p
ForwardedCall(p) ==
    LET o == Parse(p, code', startIndex', "getParser()", 1, 1)
    IN  /\ returned' = o.returns
        /\ result' = o.r
        /\ log' = log \o <<Call(dynamic, "top", 0, startIndex'), GetParser(0)>>
                      \o o.log
                      \o (IF o.returns THEN <<Return("dynamic", "top", 0, o.r)>>
                          ELSE <<>>)

\* C14: Parser.dynamic(getParser) does not invoke getParser when it is
\* constructed; each parse call invokes getParser exactly once and returns
\* exactly what the parser it returned returns at the same code and position;
\* nothing is cached, so after the variable is assigned anew the next parse
\* call uses the new parser
C14_Dynamic ==
    /\ TopGetParsers = <<>>
    /\ [][ IF binding' # binding
           THEN log' = log
           ELSE /\ Len(TopGetParsers') = Len(TopGetParsers) + 1
                /\ IF binding = Unbound
                   THEN ~returned' /\ Len(log') = Len(log) + 2
                   ELSE ForwardedCall(binding) ]_vars

\* two parse calls on the one dynamic parser, forwarded to different parsers,
\* the second to the one assigned last
C14_Witness ==
    LET inner == SelectSeq(log, LAMBDA e : e.ev = "call" /\ e.depth = 1)
    IN  /\ called /\ returned
        /\ Len(TopCalls) = 2
        /\ Len(inner) = 2
        /\ inner[1].parser # inner[2].parser
        /\ inner[2].parser = binding
        /\ result.success

---------------------------------------------------------------------------
(* The two oneParser examples of the README, built step by step and called *)
(* on every short code over the characters they read                       *)

MaxReadmeLen == 3  \* longest code the README parsers are called on

ReadmeAlphabet == {"0", "1", "."}
ReadmeCodes == UNION {[1..n -> ReadmeAlphabet] : n \in 0..MaxReadmeLen}

OneDot == word(<<"1", ".">>)
OneDotZeroWord == word(<<"1", ".", "0">>)
OneDotZero == concat(OneDot, unReversible(word(<<"0">>)))
oneParser == repeat(union(OneDotZero, word(<<"1">>)), 0)

ReadmeBuilt(p) ==
    /\ parser' = p
    /\ called' = FALSE
    /\ returned' = FALSE
    /\ result' = Nothing
    /\ log' = <<>>
    /\ code' = <<>>
    /\ startIndex' = 0
    /\ UNCHANGED binding

ReadmeInit ==
    /\ parser \in {OneDot, OneDotZeroWord}
    /\ binding = Unbound
    /\ code = <<>>
    /\ startIndex = 0
    /\ called = FALSE
    /\ returned = FALSE
    /\ result = Nothing
    /\ log = <<>>

\* word('1.').concat(word('0').unReversible())
ReadmeConcat ==
    /\ parser = OneDot
    /\ ReadmeBuilt(concat(parser, unReversible(word(<<"0">>))))

\* .union(word('1'))
ReadmeUnion ==
    /\ parser \in {OneDotZero, OneDotZeroWord}
    /\ ReadmeBuilt(union(parser, word(<<"1">>)))

\* .repeat()
ReadmeRepeat ==
    /\ parser.op = "union"
    /\ ReadmeBuilt(repeat(parser, 0))

\* console.log(parser.parse(c, start))
ReadmeParse ==
    /\ ~called
    /\ \E c \in ReadmeCodes, start \in 0..MaxReadmeLen :
         LET o == Parse(parser, c, start, "top", 0, 0)
         IN  /\ code' = c
             /\ startIndex' = start
             /\ called' = TRUE
             /\ returned' = o.returns
             /\ result' = o.r
             /\ log' = o.log
    /\ UNCHANGED <<parser, binding>>

ReadmeNext == ReadmeConcat \/ ReadmeUnion \/ ReadmeRepeat \/ ReadmeParse

SpecReadme == ReadmeInit /\ [][ReadmeNext]_vars

OnOneDotOne == called /\ code = <<"1", ".", "1">> /\ startIndex = 0

=============================================================================
